---- MODULE Spec2Model ----
(***************************************************************************)
(* Model of the caching + retry + throttling layer of the audio proxy      *)
(* service (src/unnamed/part_005): the request queue (processQueue,        *)
(* addToQueue), the metadata cache (getCachedVideoInfo, cleanupCache), the *)
(* retry controller (fetchWithRetry), the format selector                  *)
(* (getBestAudioFormat) and the GET /mp3/:videoId and /stream/:videoId     *)
(* handlers.                                                               *)
(*                                                                         *)
(* One action is one turn of the JavaScript event loop: the code that runs *)
(* from an external event (a request arriving, the extraction library      *)
(* settling its promise, a timer firing) up to the next point where every  *)
(* continuation waits for an external event again.  Promise continuations  *)
(* (microtasks) run inside the turn that settles the promise.              *)
(*                                                                         *)
(* Time is Date.now() in milliseconds.  MAX_CACHE_SIZE is scaled down from *)
(* 1000 so that the cache can be filled; the 0.8 ratio of the sweep is     *)
(* kept.                                                                   *)
(*                                                                         *)
(* The proxy pool (refreshProxyList, getNextProxy) and the extraction over *)
(* rotating proxies (fetchVideoInfo) are those of src/main.js and have     *)
(* their own specification, SpecProxy; its administration routes (POST     *)
(* /reload-cookies, POST /refresh-proxies) are in SpecAdmin.               *)
(*                                                                         *)
(* SpecFormats is the sort and the choice of the audio formats of /mp3 on  *)
(* every short list of formats, SpecHealth the service with GET /health,   *)
(* and SpecLive the service under the fairness of the event loop.          *)
(* SpecRetryLive is fetchWithRetry under that fairness, SpecRotation the   *)
(* requests of src/main.js with the proxies of each request recorded, and  *)
(* SpecSweep the insertion into videoCache with the sweep it triggers.     *)
(***************************************************************************)
EXTENDS Integers, Sequences, FiniteSets, TLC

VARIABLES
    now,            \* Date.now()
    videoCache,     \* Map key -> {info, timestamp}, in insertion order
    formatCache,    \* Map key -> {audioFormat, timestamp}, in insertion order
    requestQueue,   \* array of queued tasks (the request each belongs to)
    isProcessing,   \* flag of processQueue
    drainTimers,    \* due times of pending setTimeout(processQueue, ...)
    req,            \* the requests and the position of each handler
    response,       \* the response sent last, and how it came about
    enqOrder,       \* history: requests in the order they were enqueued
    startOrder,     \* history: requests in the order their task started
    settleOrder,    \* history: requests in the order their future settled
    lastSettle,     \* history: time the last task settled (-1: none yet)
    lastGap,        \* history: at the last task start, now - lastSettle
    retryCall,      \* a fetchWithRetry call on its own (SpecRetry)
    proxyList,          \* src/main.js: the proxy pool
    currentProxyIndex,  \* src/main.js: the rotation cursor (0-based)
    lastProxyRefresh,   \* src/main.js: time of the last refresh that loaded
    server,             \* startServer: its position and its refresh call
    posts,              \* the POST /refresh-proxies requests
    calls,              \* the /mp3 and /stream requests of src/main.js
    handed,             \* history: proxies getNextProxy returned since the
                        \* last valid list was received
    received,           \* history: the valid list received last
    refreshCall,        \* history: the last call of refreshProxyList
    answer,             \* history: the request answered last
    formats,            \* GET /mp3: the audio formats found in the metadata
    body,               \* GET /mp3: the response built from formats
    cookies,            \* the cookies parsed from cookies.txt
    reload,             \* history: the last POST /reload-cookies
    health,             \* history: the last GET /health
    used                \* history: the proxies each request in flight of
                        \* src/main.js has made its attempts with

handlerVars == <<formats, body, cookies, reload, health, used>>

proxyVars == <<proxyList, currentProxyIndex, lastProxyRefresh, server, posts,
               calls, handed, received, refreshCall, answer>>

serviceVars == <<formatCache, requestQueue, isProcessing, drainTimers, req,
                 response, enqOrder, startOrder, settleOrder, lastSettle,
                 lastGap, retryCall>>

vars == <<now, videoCache, formatCache, requestQueue, isProcessing, drainTimers, req,
          response, enqOrder, startOrder, settleOrder, lastSettle, lastGap, retryCall,
          proxyVars, handlerVars>>

----------------------------------------------------------------------------
(* Bounds of the model *)

MaxShortTicks == 2     \* steps of THROTTLE_DELAY the clock makes
MaxLongTicks == 1      \* steps of CACHE_TTL the clock makes
MaxRetriesArg == 3     \* largest maxRetries passed to fetchWithRetry
MaxBackoffTicks == 3   \* steps of BaseDelay the clock makes in SpecRetry
MaxPauseTicks == 1     \* steps of ProxyPause the clock makes in a row
MaxIntervalTicks == 1  \* steps of PROXY_REFRESH_INTERVAL the clock makes
MaxFormats == 3        \* audio formats in the metadata of one video
MaxSweepDelay == 1     \* ms between the Date.now() of an insertion and
                       \* the Date.now() of its sweep

(* Program constants *)

CACHE_TTL == 24 * 3600000
MAX_CACHE_SIZE == 2
THROTTLE_DELAY == 500
DefaultMaxRetries == 3
BaseDelay == 1000

\* one request and one video id more than the cache holds
VideoIds == 1..(MAX_CACHE_SIZE + 1)
Requests == 1..(MAX_CACHE_SIZE + 1)

----------------------------------------------------------------------------
(* Outcomes of ytdl.getInfo: metadata, or an error object with statusCode  *)
(* and message.  The library raises transport errors (a status code, the   *)
(* message "Status code: N") and playability errors (a message, no status  *)
(* code).  message holds the substring the code looks for, if any.         *)

Info(v, a) == [videoId |-> v, audio |-> a, defined |-> TRUE]
Undefined == [videoId |-> 0, audio |-> FALSE, defined |-> FALSE]

Err(s, m) == [ok |-> FALSE, statusCode |-> s, message |-> m, info |-> Undefined]
Ok(i) == [ok |-> TRUE, statusCode |-> 0, message |-> "", info |-> i]

Errors ==
    { Err(429, "other"), Err(0, "too many requests"),
      Err(0, "sign in"), Err(0, "other") }

Outcomes(v) == { Ok(Info(v, a)) : a \in BOOLEAN } \cup Errors

AllOutcomes == UNION { Outcomes(v) : v \in VideoIds }

----------------------------------------------------------------------------
(* fetchWithRetry *)

IsRateLimitedAnyStatus(error) == error.statusCode # 200

IsRateLimited(error) ==
    error.statusCode = 429 \/ error.message = "too many requests"

ShouldRetryAnyError(error, retries, maxRetries) == retries < maxRetries - 1

ShouldRetryNoCap(error, retries, maxRetries) == IsRateLimited(error)

ShouldRetry(error, retries, maxRetries) ==
    IsRateLimited(error) /\ retries < maxRetries - 1

BackoffDelayOffByOne(retries) == (2 ^ (retries + 1)) * BaseDelay

BackoffDelay(retries) == (2 ^ retries) * BaseDelay

NoFetch ==
    [pc |-> "idle", retries |-> 0, maxRetries |-> 0, attempts |-> 0,
     delays |-> <<>>, due |-> 0, out |-> Ok(Undefined)]

\* the call, up to the first await
fetchWithRetry(maxRetries) ==
    IF 0 < maxRetries
    THEN [NoFetch EXCEPT !.pc = "attempt", !.maxRetries = maxRetries,
                         !.attempts = 1]
    ELSE [NoFetch EXCEPT !.pc = "returned", !.maxRetries = maxRetries]

\* ytdl.getInfo settles with outcome o at time t
FetchSettle(f, o, t) ==
    IF o.ok
    THEN [f EXCEPT !.pc = "returned", !.out = o]
    ELSE IF ShouldRetry(o, f.retries, f.maxRetries)
         THEN [f EXCEPT !.pc = "waiting",
                        !.delays = Append(@, BackoffDelay(f.retries)),
                        !.due = t + BackoffDelay(f.retries)]
         ELSE [f EXCEPT !.pc = "thrown", !.out = o]

\* the backoff timer fires: retries++, back to the loop test
FetchResume(f) ==
    LET k == f.retries + 1 IN
    IF k < f.maxRetries
    THEN [f EXCEPT !.retries = k, !.pc = "attempt", !.attempts = @ + 1,
                   !.due = 0]
    ELSE [f EXCEPT !.retries = k, !.pc = "returned", !.out = Ok(Undefined),
                   !.due = 0]

----------------------------------------------------------------------------
(* The metadata cache *)

CacheIndex(cache, key) ==
    IF \E i \in 1..Len(cache) : cache[i].key = key
    THEN CHOOSE i \in 1..Len(cache) : cache[i].key = key
    ELSE 0

CacheHas(cache, key) == CacheIndex(cache, key) # 0

RemoveAt(cache, i) ==
    [j \in 1..(Len(cache) - 1) |-> IF j < i THEN cache[j] ELSE cache[j + 1]]

CacheDelete(cache, key) ==
    IF CacheHas(cache, key) THEN RemoveAt(cache, CacheIndex(cache, key))
    ELSE cache

CacheSet(cache, key, info, t) ==
    LET e == [key |-> key, info |-> info, timestamp |-> t] IN
    IF CacheHas(cache, key)
    THEN [cache EXCEPT ![CacheIndex(cache, key)] = e]
    ELSE Append(cache, e)

IsFreshInclusive(timestamp, t) == t - timestamp <= CACHE_TTL

IsFresh(timestamp, t) == t - timestamp < CACHE_TTL

\* a scan that keeps the newest entry below t instead of the oldest
OldestIndexNewest(cache, t) ==
    LET C == { i \in 1..Len(cache) : cache[i].timestamp < t } IN
    IF C = {} THEN 0
    ELSE CHOOSE i \in C :
            \A j \in C : \/ cache[i].timestamp > cache[j].timestamp
                         \/ (cache[i].timestamp = cache[j].timestamp /\ i >= j)

\* a scan that keeps the last of the entries with the smallest timestamp
OldestIndexLastTie(cache, t) ==
    LET C == { i \in 1..Len(cache) : cache[i].timestamp < t } IN
    IF C = {} THEN 0
    ELSE CHOOSE i \in C :
            \A j \in C : \/ cache[i].timestamp < cache[j].timestamp
                         \/ (cache[i].timestamp = cache[j].timestamp /\ i >= j)

\* the forEach scan: the first entry with the smallest timestamp below t
OldestIndex(cache, t) ==
    LET C == { i \in 1..Len(cache) : cache[i].timestamp < t } IN
    IF C = {} THEN 0
    ELSE CHOOSE i \in C :
            \A j \in C : \/ cache[i].timestamp < cache[j].timestamp
                         \/ (cache[i].timestamp = cache[j].timestamp /\ i <= j)

OverThreshold(size) == size * 10 > MAX_CACHE_SIZE * 8

RECURSIVE Sweep(_, _)
Sweep(cache, t) ==
    IF OverThreshold(Len(cache))
    THEN LET i == OldestIndex(cache, t) IN
         IF i # 0 THEN Sweep(RemoveAt(cache, i), t) ELSE cache
    ELSE cache

cleanupCache(cache, t) ==
    IF Len(cache) > MAX_CACHE_SIZE THEN Sweep(cache, t) ELSE cache

\* the timestamps of the entries a sweep deletes, in the order it deletes
\* them
RECURSIVE SweepDeletes(_, _)
SweepDeletes(cache, t) ==
    IF OverThreshold(Len(cache))
    THEN LET i == OldestIndex(cache, t) IN
         IF i # 0
         THEN <<cache[i].timestamp>> \o SweepDeletes(RemoveAt(cache, i), t)
         ELSE <<>>
    ELSE <<>>

\* a hit writes nothing to the entry
TouchOnHitRefreshes(cache, key, t) ==
    [cache EXCEPT ![CacheIndex(cache, key)].timestamp = t]

TouchOnHit(cache, key, t) == cache

\* getCachedVideoInfo up to the await: a hit, or the purge of a stale entry
PurgeStaleKeeps(cache, key) == cache

PurgeStale(cache, key) == CacheDelete(cache, key)

CacheLookupFirstInfo(cache, key, t) ==
    IF CacheHas(cache, key)
    THEN LET e == cache[CacheIndex(cache, key)] IN
         IF IsFresh(e.timestamp, t)
         THEN [hit |-> TRUE, info |-> cache[1].info, age |-> t - e.timestamp,
               stale |-> FALSE, cache |-> TouchOnHit(cache, key, t)]
         ELSE [hit |-> FALSE, info |-> Undefined, age |-> 0,
               stale |-> TRUE, cache |-> PurgeStale(cache, key)]
    ELSE [hit |-> FALSE, info |-> Undefined, age |-> 0,
          stale |-> FALSE, cache |-> cache]

CacheLookup(cache, key, t) ==
    IF CacheHas(cache, key)
    THEN LET e == cache[CacheIndex(cache, key)] IN
         IF IsFresh(e.timestamp, t)
         THEN [hit |-> TRUE, info |-> e.info, age |-> t - e.timestamp,
               stale |-> FALSE, cache |-> TouchOnHit(cache, key, t)]
         ELSE [hit |-> FALSE, info |-> Undefined, age |-> 0,
               stale |-> TRUE, cache |-> PurgeStale(cache, key)]
    ELSE [hit |-> FALSE, info |-> Undefined, age |-> 0,
          stale |-> FALSE, cache |-> cache]

\* a store that writes nothing
CacheStoreDrops(cache, key, info, t) == cache

\* getCachedVideoInfo after the await: store, then sweep
CacheStore(cache, key, info, t) ==
    LET c == CacheSet(cache, key, info, t) IN
    IF Len(c) > MAX_CACHE_SIZE THEN cleanupCache(c, t) ELSE c

\* the same when Date.now() is t at the insertion and u in cleanupCache
CacheStoreAt(cache, key, info, t, u) ==
    LET c == CacheSet(cache, key, info, t) IN
    IF Len(c) > MAX_CACHE_SIZE THEN cleanupCache(c, u) ELSE c

\* history of a store: the size the insertion took the cache to, and what
\* the sweep deleted
StoreSweep(cache, key, info, t) ==
    LET c == CacheSet(cache, key, info, t) IN
    [stored |-> Len(c),
     evicted |-> IF Len(c) > MAX_CACHE_SIZE
                 THEN SweepDeletes(c, t) ELSE <<>>]

NoSweep == [stored |-> 0, evicted |-> <<>>]

----------------------------------------------------------------------------
(* GET /mp3/:videoId: the status of the response *)

ErrorStatusNoAuth(error) ==
    IF error.statusCode = 429 \/ error.message = "too many requests"
    THEN 429
    ELSE 500

ErrorStatusRateAs500(error) ==
    IF error.message = "sign in" THEN 401
    ELSE IF error.statusCode = 429 THEN 429
         ELSE 500

ErrorStatus(error) ==
    IF error.message = "sign in" THEN 401
    ELSE IF error.statusCode = 429 \/ error.message = "too many requests"
         THEN 429
         ELSE 500

\* result: the outcome the future of addToQueue settled with
Mp3Status(result) ==
    IF result.ok
    THEN IF ~result.info.defined THEN 500       \* TypeError on info.formats
         ELSE IF ~result.info.audio THEN 404
              ELSE 200
    ELSE ErrorStatus(result)

----------------------------------------------------------------------------
(* GET /mp3/:videoId: the audio formats of the response.  A format is the  *)
(* fields the handler reads: url, contentLength, isHLS and isDashMPD by    *)
(* their truthiness, bitrate as a number or Missing (undefined).  formats  *)
(* is the list the handler sorts: the formats of info.formats and the      *)
(* adaptive formats that passed the audio filters, in that order.          *)

Missing == -1

Bitrates == {Missing, 128, 320}

Format(u, c, h, d, b) ==
    [url |-> u, contentLength |-> c, isHLS |-> h, isDashMPD |-> d,
     bitrate |-> b]

\* a format with every property, and the formats that differ from it in one
FormatKinds ==
    { Format(TRUE, TRUE, FALSE, FALSE, b) : b \in Bitrates }
    \cup { Format(FALSE, TRUE, FALSE, FALSE, b) : b \in Bitrates }
    \cup { Format(TRUE, FALSE, FALSE, FALSE, b) : b \in Bitrates }
    \cup { Format(TRUE, TRUE, TRUE, FALSE, b) : b \in Bitrates }
    \cup { Format(TRUE, TRUE, FALSE, TRUE, b) : b \in Bitrates }

FormatLists == UNION { [1..n -> FormatKinds] : n \in 0..MaxFormats }

isReliableFormatAllowsHLS(format) ==
    format.url /\ format.contentLength /\ ~format.isDashMPD

isReliableFormat(format) ==
    format.url /\ format.contentLength /\ ~format.isHLS /\ ~format.isDashMPD

\* .map(format => ({...format, isReliable: isReliableFormat(format)}))
WithReliability(format) ==
    [url |-> format.url, contentLength |-> format.contentLength,
     isHLS |-> format.isHLS, isDashMPD |-> format.isDashMPD,
     bitrate |-> format.bitrate, isReliable |-> isReliableFormat(format)]

\* (format.bitrate || 0)
BitrateOrZero(format) == IF format.bitrate = Missing THEN 0 ELSE format.bitrate

\* the comparator of the sort: negative when a goes before b
CompareBitrateOnly(a, b) == BitrateOrZero(b) - BitrateOrZero(a)

Compare(a, b) ==
    IF a.isReliable /\ ~b.isReliable THEN -1
    ELSE IF ~a.isReliable /\ b.isReliable THEN 1
         ELSE BitrateOrZero(b) - BitrateOrZero(a)

\* Array.prototype.sort is a stable insertion of each element, from the
\* right, into the elements sorted before it
RECURSIVE SortInsert(_, _)
SortInsert(sorted, format) ==
    IF sorted = <<>> THEN <<format>>
    ELSE LET last == sorted[Len(sorted)] IN
         IF Compare(format, last) < 0
         THEN Append(SortInsert(SubSeq(sorted, 1, Len(sorted) - 1), format),
                     last)
         ELSE Append(sorted, format)

RECURSIVE SortFormats(_)
SortFormats(list) ==
    IF list = <<>> THEN <<>>
    ELSE SortInsert(SortFormats(SubSeq(list, 1, Len(list) - 1)),
                    list[Len(list)])

NoAudioFormat ==
    [url |-> FALSE, contentLength |-> FALSE, isHLS |-> FALSE,
     isDashMPD |-> FALSE, bitrate |-> Missing, isReliable |-> FALSE]

\* allAudioFormats.find(format => format.isReliable) || allAudioFormats[0]
RecommendedFormat(all) ==
    LET R == { i \in 1..Len(all) : all[i].isReliable } IN
    IF R # {} THEN all[CHOOSE i \in R : \A j \in R : i <= j] ELSE all[1]

NoBody ==
    [status |-> 0, recommendedFormat |-> NoAudioFormat, audioFormats |-> <<>>]

\* the handler from the sort to the response
Mp3Body(list) ==
    LET allAudioFormats ==
            SortFormats([i \in 1..Len(list) |-> WithReliability(list[i])])
    IN IF Len(allAudioFormats) = 0
       THEN [NoBody EXCEPT !.status = 404]
       ELSE [status |-> 200,
             recommendedFormat |-> RecommendedFormat(allAudioFormats),
             audioFormats |-> allAudioFormats]

----------------------------------------------------------------------------
(* The format selector.  An audio format is chosen from the metadata it    *)
(* belongs to; metadata without an audio-only format yields none.          *)

NoFormat == [videoId |-> 0, defined |-> FALSE]

\* ytdl.chooseFormat(info.formats, highestaudio/audioonly)
chooseFormat(info) ==
    IF info.audio THEN [videoId |-> info.videoId, defined |-> TRUE]
    ELSE NoFormat

FormatSet(cache, key, audioFormat, t) ==
    LET e == [key |-> key, audioFormat |-> audioFormat, timestamp |-> t]
        i == CacheIndex(cache, key)
    IN IF i = 0 THEN Append(cache, e) ELSE [cache EXCEPT ![i] = e]

\* getBestAudioFormat(info, videoId) at time t: the format returned, the
\* formatCache left behind, and whether the format came from formatCache
getBestAudioFormat(cache, info, key, t) ==
    LET i == CacheIndex(cache, key)
        fresh == i # 0 /\ IsFresh(cache[i].timestamp, t)
        c == IF i # 0 THEN RemoveAt(cache, i) ELSE cache
        audioFormat == chooseFormat(info)
    IN IF fresh
       THEN [format |-> cache[i].audioFormat, formatCache |-> cache,
             cached |-> TRUE]
       ELSE [format |-> audioFormat,
             formatCache |-> IF audioFormat.defined
                             THEN FormatSet(c, key, audioFormat, t) ELSE c,
             cached |-> FALSE]

----------------------------------------------------------------------------
(* The handlers after "await addToQueue(...)": the status of the response, *)
(* the format served and the formatCache left behind                       *)

Mp3Handler(result) ==
    [status |-> Mp3Status(result), format |-> NoFormat,
     formatCache |-> formatCache, cached |-> FALSE]

\* GET /stream/:videoId; 200 stands for the piped audio stream
StreamHandler(result, videoId, cache, t) ==
    IF ~result.ok
    THEN [status |-> ErrorStatus(result), format |-> NoFormat,
          formatCache |-> cache, cached |-> FALSE]
    ELSE IF ~result.info.defined               \* TypeError on info.formats
         THEN [status |-> 500, format |-> NoFormat, formatCache |-> cache,
               cached |-> FALSE]
         ELSE LET g == getBestAudioFormat(cache, result.info, videoId, t) IN
              [status |-> IF g.format.defined THEN 200 ELSE 404,
               format |-> g.format, formatCache |-> g.formatCache,
               cached |-> g.cached]

----------------------------------------------------------------------------
(* cookies.txt and parseCookiesFile.  A line of the file is what the       *)
(* parser looks at: whether it starts with '#', whether it is blank, the   *)
(* number of tab-separated parts, and the name in part 5.                  *)

Line(hash, blank, parts, name) ==
    [startsHash |-> hash, blank |-> blank, parts |-> parts, name |-> name]

CommentLine == Line(TRUE, FALSE, 1, "")
BlankLine == Line(FALSE, TRUE, 1, "")
ShortLine == Line(FALSE, FALSE, 6, "SID")
CookieLine(name) == Line(FALSE, FALSE, 7, name)

\* fs.readFileSync throws for a file that cannot be read
Unreadable == [readable |-> FALSE, lines |-> <<>>]
File(lines) == [readable |-> TRUE, lines |-> lines]

CookieFiles ==
    { Unreadable,
      File(<<>>),
      File(<<ShortLine>>),
      File(<<CommentLine, CookieLine("SID")>>),
      File(<<CookieLine("SID"), BlankLine, ShortLine, CookieLine("HSID")>>),
      File(<<CookieLine("SID"), CookieLine("HSID"), CookieLine("SSID")>>) }

\* the lines that become cookies
IsCookieLine(line) ==
    ~(line.startsHash \/ line.blank) /\ line.parts >= 7

RECURSIVE ParseLines(_)
ParseLines(lines) ==
    IF lines = <<>> THEN <<>>
    ELSE IF IsCookieLine(Head(lines))
         THEN <<Head(lines).name>> \o ParseLines(Tail(lines))
         ELSE ParseLines(Tail(lines))

\* parseCookiesFile: the array it returns, and whether it throws; the catch
\* around its whole body returns [] for every error
parseCookiesFile(file) ==
    [threw |-> FALSE,
     cookies |-> IF file.readable THEN ParseLines(file.lines) ELSE <<>>]

\* POST /reload-cookies: the status of the response
ReloadStatus(parsed) == IF parsed.threw THEN 500 ELSE 200

NoReload == [made |-> FALSE, readable |-> FALSE, status |-> 0, count |-> 0]

\* POST /refresh-proxies: refreshProxyList catches every error of its body,
\* so the await of the handler never throws
RefreshThrows(reply) == FALSE

PostStatus(threw) == IF threw THEN 500 ELSE 200

\* history of a reply: the source was unreachable or the list was invalid
RefreshFailed(reply) == reply.status # "list" \/ reply.proxies = <<>>

NoPost == [pc |-> "new", at |-> 0, status |-> 0, failed |-> FALSE]

----------------------------------------------------------------------------
(* GET /health of the service: the body of the response *)

CacheSizeOfFormats(vc, fc) == Len(fc)

CacheSize(vc, fc) == Len(vc)

HealthBody ==
    [status |-> 200,
     cookiesLoaded |-> Len(cookies) > 0,
     cookieCount |-> Len(cookies),
     cacheSize |-> CacheSize(videoCache, formatCache),
     formatCacheSize |-> Len(formatCache),
     queueSize |-> Len(requestQueue),
     isProcessingQueue |-> isProcessing]

NoHealth ==
    [status |-> 0, cookiesLoaded |-> FALSE, cookieCount |-> 0,
     cacheSize |-> 0, formatCacheSize |-> 0, queueSize |-> 0,
     isProcessingQueue |-> FALSE]

\* src/main.js: two requests, which may be in flight together, and one POST
\* /refresh-proxies
ProxyCalls == {1, 2}
Posts == {1}

\* no attempt made through a proxy
NoneUsed == [r \in ProxyCalls |-> <<>>]

\* no /mp3 body built, no cookies found at startup, no admin request made
HandlersIdle ==
    /\ formats = <<>>
    /\ body = NoBody
    /\ cookies = <<>>
    /\ reload = NoReload
    /\ health = NoHealth
    /\ used = NoneUsed

----------------------------------------------------------------------------
(* The request queue *)

\* a request: pc is "new" (not arrived), "queued", "running" (its task is
\* in flight) or "done" (answered); stale: its lookup purged an expired
\* entry; signIn: an attempt of its task got a sign-in error
NewRequest ==
    [pc |-> "new", route |-> "mp3", videoId |-> 0, fetch |-> NoFetch,
     stale |-> FALSE, signIn |-> FALSE]

DoneRequest(v) == [NewRequest EXCEPT !.pc = "done", !.videoId = v]

NoResponse ==
    [request |-> 0, videoId |-> 0, status |-> 0, hit |-> FALSE, hitAge |-> 0,
     stale |-> FALSE, signIn |-> FALSE, cachedAfter |-> FALSE,
     fetch |-> NoFetch, stored |-> 0, evicted |-> <<>>,
     route |-> "mp3", format |-> NoFormat, formatCached |-> FALSE,
     info |-> Undefined]

\* setTimeout(processQueue, THROTTLE_DELAY) at time t
ScheduleDrainNever(tm, t) == tm

ScheduleDrain(tm, t) == Append(tm, t + THROTTLE_DELAY)

DequeueLast(q) == [item |-> q[Len(q)], rest |-> SubSeq(q, 1, Len(q) - 1)]

DequeueKeeps(q) == [item |-> Head(q), rest |-> q]

Dequeue(q) == [item |-> Head(q), rest |-> Tail(q)]

ProcessQueueIgnoresFlag(q) == Len(q) = 0

ProcessQueueReturnsEarly(q) == isProcessing \/ Len(q) = 0

\* processQueue from "finally" on: the future of request r has settled with
\* result and the handler has answered; rq, tm, cache are the requests,
\* timers and cache at that point, look the lookup the task began with, sw
\* the history of the store the task made
Settled(r, rq, tm, cache, result, look, sw) ==
    LET h == IF rq[r].route = "stream"
             THEN StreamHandler(result, rq[r].videoId, formatCache, now)
             ELSE Mp3Handler(result)
    IN
    /\ req' = [rq EXCEPT ![r] = DoneRequest(rq[r].videoId)]
    /\ response' = [request |-> r, videoId |-> rq[r].videoId,
                    status |-> h.status,
                    route |-> rq[r].route, format |-> h.format,
                    formatCached |-> h.cached,
                    hit |-> look.hit, hitAge |-> look.age,
                    stale |-> rq[r].stale, signIn |-> rq[r].signIn,
                    cachedAfter |-> CacheHas(cache, rq[r].videoId),
                    fetch |-> rq[r].fetch,
                    stored |-> sw.stored, evicted |-> sw.evicted,
                    info |-> result.info]
    /\ videoCache' = cache
    /\ formatCache' = h.formatCache
    /\ isProcessing' = FALSE
    /\ drainTimers' = ScheduleDrain(tm, now)
    /\ settleOrder' = Append(settleOrder, r)
    /\ lastSettle' = now

\* the task of request r after a step of its fetchWithRetry call left it in f
AfterFetch(r, rq, tm, cache, f) ==
    LET rq2 == [rq EXCEPT ![r].fetch = f]
        miss == [hit |-> FALSE, age |-> 0]
    IN
    IF f.pc = "returned"
    THEN Settled(r, rq2, tm,
                 CacheStore(cache, rq[r].videoId, f.out.info, now), f.out,
                 miss, StoreSweep(cache, rq[r].videoId, f.out.info, now))
    ELSE IF f.pc = "thrown"
         THEN Settled(r, rq2, tm, cache, f.out, miss, NoSweep)
         ELSE /\ req' = rq2
              /\ videoCache' = cache
              /\ isProcessing' = TRUE
              /\ drainTimers' = tm
              /\ UNCHANGED <<formatCache, response, settleOrder, lastSettle>>

\* q, rq, tm: the queue, requests and timers when processQueue is called
processQueue(q, rq, tm) ==
    IF ProcessQueueReturnsEarly(q)
    THEN /\ requestQueue' = q
         /\ req' = rq
         /\ drainTimers' = tm
         /\ UNCHANGED <<videoCache, formatCache, isProcessing, response,
                        startOrder, settleOrder, lastSettle, lastGap>>
    ELSE LET r == Dequeue(q).item
             look == CacheLookup(videoCache, rq[r].videoId, now)
             rq2 == [rq EXCEPT ![r].pc = "running",
                               ![r].stale = look.stale]
         IN /\ requestQueue' = Dequeue(q).rest
            /\ startOrder' = Append(startOrder, r)
            /\ lastGap' = IF lastSettle = -1 THEN -1 ELSE now - lastSettle
            /\ IF look.hit
               THEN Settled(r, rq2, tm, look.cache, Ok(look.info), look,
                            NoSweep)
               ELSE AfterFetch(r, rq2, tm, look.cache,
                               fetchWithRetry(DefaultMaxRetries))

\* an enqueue that does not start the queue
addToQueueOnly(r, rq) ==
    /\ requestQueue' = Append(requestQueue, r)
    /\ req' = rq
    /\ UNCHANGED <<videoCache, formatCache, isProcessing, drainTimers,
                   response, startOrder, settleOrder, lastSettle, lastGap>>

addToQueue(r, rq) ==
    LET q == Append(requestQueue, r) IN
    IF ~isProcessing
    THEN processQueue(q, rq, drainTimers)
    ELSE /\ requestQueue' = q
         /\ req' = rq
         /\ UNCHANGED <<videoCache, formatCache, isProcessing, drainTimers,
                        response, startOrder, settleOrder, lastSettle,
                        lastGap>>

----------------------------------------------------------------------------
(* The proxy pool and the extraction over rotating proxies (src/main.js,   *)
(* the revision that begins at line 529).  This revision has no request    *)
(* queue: every request runs getCachedVideoInfo at once, so calls of       *)
(* fetchVideoInfo and of refreshProxyList overlap.  videoCache is the      *)
(* metadata cache of this revision, with its TTL of one hour.              *)

PROXY_REFRESH_INTERVAL == 30 * 60 * 1000
HOUR_CACHE_TTL == 3600000
ProxyPause == 500

\* the lists the proxy source serves
ProxyLists == { <<"a", "b", "c">>, <<"d", "e">> }

\* what axios.get(PROXY_API_URL) ends with: a rejection ("error"), a body
\* without a proxies array ("invalid"), or a body with one ("list")
ProxyReplies ==
    { [status |-> "error", proxies |-> <<>>],
      [status |-> "invalid", proxies |-> <<>>] }
    \cup { [status |-> "list", proxies |-> l] : l \in ProxyLists \cup {<<>>} }

\* errors of ytdl.getInfo this revision tells apart
ProxyErrors ==
    { Err(429, "other"), Err(403, "other"), Err(401, "other"),
      Err(0, "other") }

ProxyVideo == 1

ProxyOutcomes == { Ok(Info(ProxyVideo, a)) : a \in BOOLEAN } \cup ProxyErrors

NoError == Err(0, "")

ExhaustedError == Err(0, "Failed to fetch video info after multiple attempts")

\* the pool as one value
Pool(list, index, last) ==
    [proxyList |-> list, currentProxyIndex |-> index, lastProxyRefresh |-> last]

CurrentPool == Pool(proxyList, currentProxyIndex, lastProxyRefresh)

SetPool(p) ==
    /\ proxyList' = p.proxyList
    /\ currentProxyIndex' = p.currentProxyIndex
    /\ lastProxyRefresh' = p.lastProxyRefresh

\* refreshProxyList: the test that decides whether the source is contacted
ShouldRefreshAtInterval(t, p) ==
    t - p.lastProxyRefresh >= PROXY_REFRESH_INTERVAL \/ Len(p.proxyList) = 0

ShouldRefresh(t, p) ==
    t - p.lastProxyRefresh > PROXY_REFRESH_INTERVAL \/ Len(p.proxyList) = 0

\* refreshProxyList called at time t on pool p, up to its await or its
\* return: whether it awaits the proxy source, and the pool it leaves
refreshProxyList(t, p) == [contact |-> ShouldRefresh(t, p), pool |-> p]

\* refreshProxyList: the test of the response
AcceptsReplyOnlyLonger(reply, p) ==
    reply.status = "list" /\ Len(reply.proxies) > Len(p.proxyList)

AcceptsReply(reply, p) == reply.status = "list" /\ Len(reply.proxies) > 0

\* refreshProxyList: the three assignments; t is the now of the call
InstallKeepsCursor(reply, t, p) == Pool(reply.proxies, p.currentProxyIndex, t)

Install(reply, t, p) == Pool(reply.proxies, 0, t)

\* a refresh that records its time also when it loaded nothing
RefreshSettledStamps(reply, t, p) ==
    IF AcceptsReply(reply, p) THEN Install(reply, t, p)
    ELSE [p EXCEPT !.lastProxyRefresh = t]

\* refreshProxyList after the await
RefreshSettled(reply, t, p) ==
    IF AcceptsReply(reply, p) THEN Install(reply, t, p) ELSE p

\* history of a reply: a valid list starts a new rotation
HandedAfterReply(reply, h) ==
    IF reply.status = "list" /\ reply.proxies # <<>> THEN <<>> ELSE h

ReceivedAfterReply(reply, l) ==
    IF reply.status = "list" /\ reply.proxies # <<>> THEN reply.proxies ELSE l

\* history of a call rc of refreshProxyList at time t on pool p: whether
\* the interval had elapsed, whether the pool was empty, whether the source
\* was contacted, whether the call changed the pool
RefreshCalled(t, p, rc) ==
    [made |-> TRUE,
     elapsed |-> t - p.lastProxyRefresh > PROXY_REFRESH_INTERVAL,
     empty |-> p.proxyList = <<>>,
     contacted |-> rc.contact,
     changed |-> rc.pool # p]

NoRefreshCall ==
    [made |-> FALSE, elapsed |-> FALSE, empty |-> FALSE, contacted |-> FALSE,
     changed |-> FALSE]

\* getNextProxy: the cursor after the call
NextIndexSkips(index, len) == (index + 2) % len

NextIndex(index, len) == (index + 1) % len

\* getNextProxy on pool p: the proxy returned ("null" for null) and the pool
\* left
getNextProxyDrops(p) ==
    IF Len(p.proxyList) = 0
    THEN [proxy |-> "null", pool |-> p]
    ELSE [proxy |-> p.proxyList[p.currentProxyIndex + 1],
          pool |-> [p EXCEPT !.proxyList =
                                 RemoveAt(@, p.currentProxyIndex + 1),
                             !.currentProxyIndex = 0]]

getNextProxy(p) ==
    IF Len(p.proxyList) = 0
    THEN [proxy |-> "null", pool |-> p]
    ELSE [proxy |-> p.proxyList[p.currentProxyIndex + 1],
          pool |-> [p EXCEPT !.currentProxyIndex =
                                 NextIndex(@, Len(p.proxyList))]]

Hand(h, proxy) == IF proxy = "null" THEN h ELSE Append(h, proxy)

\* a request of this revision: pc is "new", "refreshing" (fetchVideoInfo
\* awaits refreshProxyList), "attempt" (awaits ytdl.getInfo), "waiting"
\* (awaits the pause after a failed attempt) or "done"; at: the now of its
\* refreshProxyList call; result: how getCachedVideoInfo ended
NoCall ==
    [pc |-> "new", route |-> "mp3", maxRetries |-> 0, attempts |-> 0,
     lastError |-> NoError, due |-> 0, at |-> 0]

DoneCall == [NoCall EXCEPT !.pc = "done"]

\* the answer to request r: how getCachedVideoInfo ended ("hit",
\* "returned", "thrown"), the status sent, the error caught, and the
\* failed attempts fetchVideoInfo counted
Answer(r, c, how, status, error) ==
    [request |-> r, result |-> how, status |-> status, error |-> error,
     attempts |-> c.attempts]

NoAnswer == Answer(0, NoCall, "none", 0, NoError)

\* the catch blocks of the handlers
ProxyErrorStatus(error) ==
    IF error.message = "sign in" THEN 401
    ELSE IF error.statusCode = 429 THEN 429
         ELSE 500

\* a handler after getCachedVideoInfo returned info: /mp3 answers, /stream
\* chooses the format, takes a proxy for the stream and pipes
Answered(r, c, info, how, p, h) ==
    LET streams == c.route = "stream" /\ chooseFormat(info).defined
        g == getNextProxy(p)
    IN
    /\ calls' = [calls EXCEPT ![r] = DoneCall]
    /\ answer' = Answer(r, c, how, IF info.audio THEN 200 ELSE 404, NoError)
    /\ SetPool(IF streams THEN g.pool ELSE p)
    /\ handed' = IF streams THEN Hand(h, g.proxy) ELSE h

\* a handler after getCachedVideoInfo threw error
Failed(r, c, error, p, h) ==
    /\ calls' = [calls EXCEPT ![r] = DoneCall]
    /\ answer' = Answer(r, c, "thrown", ProxyErrorStatus(error), error)
    /\ SetPool(p)
    /\ handed' = h

\* fetchVideoInfo: what it does with the error of an attempt
OnErrorGivesUpOn429(error) ==
    IF error.statusCode \in {429, 403, 401} THEN "throw" ELSE "retry"

OnErrorRetriesForbidden(error) ==
    IF error.statusCode = 401 THEN "throw" ELSE "retry"

OnError(error) ==
    IF error.statusCode = 429 THEN "retry"
    ELSE IF error.statusCode = 403 \/ error.statusCode = 401 THEN "throw"
         ELSE "retry"

\* fetchVideoInfo at the head of its while loop, for request r in state c,
\* with pool p and history h
FetchLoop(r, c, p, h) ==
    IF c.attempts < c.maxRetries
    THEN LET g == getNextProxy(p) IN
         /\ calls' = [calls EXCEPT ![r] =
                         [c EXCEPT !.pc = "attempt", !.due = 0, !.at = 0]]
         /\ answer' = answer
         /\ SetPool(g.pool)
         /\ handed' = Hand(h, g.proxy)
    ELSE Failed(r, c, IF c.lastError = NoError THEN ExhaustedError
                      ELSE c.lastError, p, h)

----------------------------------------------------------------------------
(* Actions of the proxy revision *)

\* the refreshProxyList call of startServer settles; the server listens
StartupRefreshSettles(reply) ==
    /\ server.pc = "starting"
    /\ SetPool(RefreshSettled(reply, server.at, CurrentPool))
    /\ handed' = HandedAfterReply(reply, handed)
    /\ received' = ReceivedAfterReply(reply, received)
    /\ server' = [server EXCEPT !.pc = "listening"]
    /\ UNCHANGED <<now, videoCache, posts, calls, refreshCall, answer,
                   serviceVars, handlerVars>>

\* a POST /refresh-proxies arrives
RefreshPost(e) ==
    /\ server.pc = "listening"
    /\ posts[e].pc = "new"
    /\ \A f \in Posts : f < e => posts[f].pc # "new"
    /\ LET rc == refreshProxyList(now, CurrentPool) IN
       /\ posts' = [posts EXCEPT ![e] =
                       IF rc.contact
                       THEN [NoPost EXCEPT !.pc = "refreshing", !.at = now]
                       ELSE [NoPost EXCEPT !.pc = "done",
                                           !.status = PostStatus(FALSE)]]
       /\ SetPool(rc.pool)
       /\ refreshCall' = RefreshCalled(now, CurrentPool, rc)
    /\ UNCHANGED <<now, videoCache, server, calls, handed, received, answer,
                   serviceVars, handlerVars>>

\* the refreshProxyList call of a POST /refresh-proxies settles
PostRefreshSettles(e, reply) ==
    /\ posts[e].pc = "refreshing"
    /\ SetPool(RefreshSettled(reply, posts[e].at, CurrentPool))
    /\ handed' = HandedAfterReply(reply, handed)
    /\ received' = ReceivedAfterReply(reply, received)
    /\ posts' = [posts EXCEPT ![e] =
                    [NoPost EXCEPT !.pc = "done",
                                   !.status = PostStatus(RefreshThrows(reply)),
                                   !.failed = RefreshFailed(reply)]]
    /\ UNCHANGED <<now, videoCache, server, calls, refreshCall, answer,
                   serviceVars, handlerVars>>

\* a GET /mp3/:videoId or /stream/:videoId arrives: getCachedVideoInfo, and
\* on a miss fetchVideoInfo up to its first await
ProxyRequestStep(r, route) ==
    /\ server.pc = "listening"
    /\ calls[r].pc = "new"
    /\ \A q \in ProxyCalls : q < r => calls[q].pc # "new"
    /\ LET i == CacheIndex(videoCache, ProxyVideo)
           hit == i # 0 /\ now - videoCache[i].timestamp < HOUR_CACHE_TTL
           c == [calls[r] EXCEPT !.route = route,
                                 !.maxRetries = Len(proxyList)]
           rc == refreshProxyList(now, CurrentPool)
       IN IF hit
          THEN /\ Answered(r, c, videoCache[i].info, "hit", CurrentPool,
                           handed)
               /\ UNCHANGED <<videoCache, refreshCall>>
          ELSE /\ videoCache' = IF i # 0 THEN RemoveAt(videoCache, i)
                                ELSE videoCache
               /\ IF Len(proxyList) = 0
                  THEN /\ refreshCall' = RefreshCalled(now, CurrentPool, rc)
                       /\ IF rc.contact
                          THEN /\ calls' = [calls EXCEPT ![r] =
                                    [c EXCEPT !.pc = "refreshing",
                                              !.at = now]]
                               /\ SetPool(rc.pool)
                               /\ UNCHANGED <<handed, answer>>
                          ELSE FetchLoop(r, c, rc.pool, handed)
                  ELSE /\ FetchLoop(r, c, CurrentPool, handed)
                       /\ UNCHANGED refreshCall
    /\ UNCHANGED <<now, server, posts, received, serviceVars>>

ProxyRequest(r, route) == ProxyRequestStep(r, route) /\ UNCHANGED handlerVars

\* the refreshProxyList call of a fetchVideoInfo settles
FetchRefreshSettlesStep(r, reply) ==
    /\ calls[r].pc = "refreshing"
    /\ FetchLoop(r, calls[r],
                 RefreshSettled(reply, calls[r].at, CurrentPool),
                 HandedAfterReply(reply, handed))
    /\ received' = ReceivedAfterReply(reply, received)
    /\ UNCHANGED <<now, videoCache, server, posts, refreshCall, serviceVars>>

FetchRefreshSettles(r, reply) ==
    FetchRefreshSettlesStep(r, reply) /\ UNCHANGED handlerVars

\* ytdl.getInfo settles for an attempt of request r
AttemptSettlesStep(r, o) ==
    /\ calls[r].pc = "attempt"
    /\ IF o.ok
       THEN /\ videoCache' = CacheSet(videoCache, ProxyVideo, o.info, now)
            /\ Answered(r, calls[r], o.info, "returned", CurrentPool, handed)
       ELSE /\ IF OnError(o) = "throw"
               THEN Failed(r, calls[r], o, CurrentPool, handed)
               ELSE /\ calls' = [calls EXCEPT ![r].pc = "waiting",
                                              ![r].lastError = o,
                                              ![r].attempts = @ + 1,
                                              ![r].due = now + ProxyPause]
                    /\ UNCHANGED <<proxyList, currentProxyIndex,
                                   lastProxyRefresh, handed, answer>>
            /\ UNCHANGED videoCache
    /\ UNCHANGED <<now, server, posts, received, refreshCall, serviceVars>>

AttemptSettles(r, o) == AttemptSettlesStep(r, o) /\ UNCHANGED handlerVars

\* the pause after a failed attempt of request r is over
PauseOverStep(r) ==
    /\ calls[r].pc = "waiting"
    /\ now >= calls[r].due
    /\ FetchLoop(r, calls[r], CurrentPool, handed)
    /\ UNCHANGED <<now, videoCache, server, posts, received, refreshCall,
                   serviceVars>>

PauseOver(r) == PauseOverStep(r) /\ UNCHANGED handlerVars

\* a pause that is over ends before the clock moves on
PauseDue == \E r \in ProxyCalls : calls[r].pc = "waiting" /\ now >= calls[r].due

\* time passes: by the pause of fetchVideoInfo
PauseTick ==
    /\ ~PauseDue
    /\ (now % PROXY_REFRESH_INTERVAL) + ProxyPause <= MaxPauseTicks * ProxyPause
    /\ now' = now + ProxyPause
    /\ UNCHANGED <<videoCache, proxyVars, serviceVars, handlerVars>>

\* time passes: up to the next multiple of PROXY_REFRESH_INTERVAL
IntervalTick ==
    /\ ~PauseDue
    /\ now \div PROXY_REFRESH_INTERVAL < MaxIntervalTicks
    /\ now' = ((now \div PROXY_REFRESH_INTERVAL) + 1) * PROXY_REFRESH_INTERVAL
    /\ UNCHANGED <<videoCache, proxyVars, serviceVars, handlerVars>>

\* the state before startServer runs
PoolNotStarted ==
    /\ proxyList = <<>>
    /\ currentProxyIndex = 0
    /\ lastProxyRefresh = 0
    /\ server = [pc |-> "new", at |-> 0]
    /\ posts = [e \in Posts |-> NoPost]
    /\ calls = [r \in ProxyCalls |-> NoCall]
    /\ handed = <<>>
    /\ received = <<>>
    /\ refreshCall = NoRefreshCall
    /\ answer = NoAnswer

\* startServer has called refreshProxyList, which awaits the proxy source
InitProxy ==
    /\ now = 0
    /\ videoCache = <<>>
    /\ formatCache = <<>>
    /\ requestQueue = <<>>
    /\ isProcessing = FALSE
    /\ drainTimers = <<>>
    /\ req = [r \in Requests |-> NewRequest]
    /\ response = NoResponse
    /\ enqOrder = <<>>
    /\ startOrder = <<>>
    /\ settleOrder = <<>>
    /\ lastSettle = -1
    /\ lastGap = -1
    /\ retryCall = [f |-> NoFetch, outcomes |-> <<>>,
                    startedAt |-> <<>>, settledAt |-> <<>>]
    /\ proxyList = <<>>
    /\ currentProxyIndex = 0
    /\ lastProxyRefresh = 0
    /\ server = [pc |-> "starting", at |-> 0]
    /\ posts = [e \in Posts |-> NoPost]
    /\ calls = [r \in ProxyCalls |-> NoCall]
    /\ handed = <<>>
    /\ received = <<>>
    /\ refreshCall = RefreshCalled(0, Pool(<<>>, 0, 0),
                                   refreshProxyList(0, Pool(<<>>, 0, 0)))
    /\ answer = NoAnswer
    /\ HandlersIdle

NextProxy ==
    \/ \E reply \in ProxyReplies : StartupRefreshSettles(reply)
    \/ \E e \in Posts : RefreshPost(e)
    \/ \E e \in Posts, reply \in ProxyReplies : PostRefreshSettles(e, reply)
    \/ \E r \in ProxyCalls, route \in {"mp3", "stream"} : ProxyRequest(r, route)
    \/ \E r \in ProxyCalls, reply \in ProxyReplies : FetchRefreshSettles(r, reply)
    \/ \E r \in ProxyCalls, o \in ProxyOutcomes : AttemptSettles(r, o)
    \/ \E r \in ProxyCalls : PauseOver(r)
    \/ PauseTick
    \/ IntervalTick

SpecProxy == InitProxy /\ [][NextProxy]_vars

----------------------------------------------------------------------------
(* The administration routes of src/main.js: POST /reload-cookies and POST *)
(* /refresh-proxies, with the refresh of startServer.                      *)

\* a POST /reload-cookies arrives while cookies.txt is file
ReloadCookies(file) ==
    /\ server.pc = "listening"
    /\ LET parsed == parseCookiesFile(file) IN
       /\ cookies' = IF parsed.threw THEN cookies ELSE parsed.cookies
       /\ reload' = [made |-> TRUE, readable |-> file.readable,
                     status |-> ReloadStatus(parsed),
                     count |-> Len(parsed.cookies)]
    /\ UNCHANGED <<now, videoCache, serviceVars, proxyVars, formats, body,
                   health, used>>

NextAdmin ==
    \/ \E reply \in ProxyReplies : StartupRefreshSettles(reply)
    \/ \E e \in Posts : RefreshPost(e)
    \/ \E e \in Posts, reply \in ProxyReplies : PostRefreshSettles(e, reply)
    \/ \E file \in CookieFiles : ReloadCookies(file)
    \/ IntervalTick

SpecAdmin == InitProxy /\ [][NextAdmin]_vars

----------------------------------------------------------------------------
(* The requests of src/main.js with the proxies of each request recorded:  *)
(* used[r] is the proxies getNextProxy returned to the attempts of request *)
(* r, while r is in flight.                                                *)

\* fetchVideoInfo of request r: "const proxy = getNextProxy()" of an attempt
\* that begins in this step
UsedAfter(r) ==
    IF calls'[r].pc = "attempt" THEN Append(used[r], handed'[Len(handed')])
    ELSE IF calls'[r].pc = "done" THEN <<>>
         ELSE used[r]

Track(r) ==
    /\ used' = [used EXCEPT ![r] = UsedAfter(r)]
    /\ UNCHANGED <<formats, body, cookies, reload, health>>

TrackedRequest(r, route) == ProxyRequestStep(r, route) /\ Track(r)

TrackedRefreshSettles(r, reply) == FetchRefreshSettlesStep(r, reply) /\ Track(r)

TrackedAttemptSettles(r, o) == AttemptSettlesStep(r, o) /\ Track(r)

TrackedPauseOver(r) == PauseOverStep(r) /\ Track(r)

NextRotation ==
    \/ \E reply \in ProxyReplies : StartupRefreshSettles(reply)
    \/ \E r \in ProxyCalls, route \in {"mp3", "stream"} : TrackedRequest(r, route)
    \/ \E r \in ProxyCalls, reply \in ProxyReplies :
          TrackedRefreshSettles(r, reply)
    \/ \E r \in ProxyCalls, o \in ProxyOutcomes : TrackedAttemptSettles(r, o)
    \/ \E r \in ProxyCalls : TrackedPauseOver(r)
    \/ PauseTick

SpecRotation == InitProxy /\ [][NextRotation]_vars

----------------------------------------------------------------------------
(* Actions of the service *)

\* a GET /mp3/:videoId request arrives; requests are numbered by arrival
Mp3Request(r, v) ==
    /\ req[r].pc = "new"
    /\ \A s \in Requests : s < r => req[s].pc # "new"
    /\ \A w \in VideoIds : w < v => \E s \in Requests : req[s].videoId = w
    /\ addToQueue(r, [req EXCEPT ![r].pc = "queued", ![r].videoId = v])
    /\ enqOrder' = Append(enqOrder, r)
    /\ UNCHANGED <<now, retryCall, proxyVars, handlerVars>>

\* a GET /stream/:videoId request arrives
StreamRequest(r, v) ==
    /\ req[r].pc = "new"
    /\ \A s \in Requests : s < r => req[s].pc # "new"
    /\ \A w \in VideoIds : w < v => \E s \in Requests : req[s].videoId = w
    /\ addToQueue(r, [req EXCEPT ![r].pc = "queued", ![r].route = "stream",
                                 ![r].videoId = v])
    /\ enqOrder' = Append(enqOrder, r)
    /\ UNCHANGED <<now, retryCall, proxyVars, handlerVars>>

\* ytdl.getInfo settles for the task in flight
GetInfoSettles(r, o) ==
    /\ req[r].pc = "running"
    /\ req[r].fetch.pc = "attempt"
    /\ o \in Outcomes(req[r].videoId)
    /\ AfterFetch(r, [req EXCEPT ![r].signIn = @ \/ o.message = "sign in"],
                  drainTimers, videoCache, FetchSettle(req[r].fetch, o, now))
    /\ UNCHANGED <<now, requestQueue, enqOrder, startOrder, lastGap,
                   retryCall, proxyVars, handlerVars>>

\* the backoff timer of the task in flight fires
BackoffTimerFires(r) ==
    /\ req[r].pc = "running"
    /\ req[r].fetch.pc = "waiting"
    /\ now >= req[r].fetch.due
    /\ AfterFetch(r, req, drainTimers, videoCache, FetchResume(req[r].fetch))
    /\ UNCHANGED <<now, requestQueue, enqOrder, startOrder, lastGap,
                   retryCall, proxyVars, handlerVars>>

\* a setTimeout(processQueue, THROTTLE_DELAY) fires
DrainTimerFires ==
    /\ drainTimers # <<>>
    /\ now >= Head(drainTimers)
    /\ processQueue(requestQueue, req, Tail(drainTimers))
    /\ UNCHANGED <<now, enqOrder, retryCall, proxyVars, handlerVars>>

\* time passes
TickSteps == {THROTTLE_DELAY, CACHE_TTL}

Tick(d) ==
    /\ d \in TickSteps
    /\ d = THROTTLE_DELAY => (now % CACHE_TTL) + d <= MaxShortTicks * THROTTLE_DELAY
    /\ d = CACHE_TTL => now \div CACHE_TTL < MaxLongTicks
    /\ now' = now + d
    /\ UNCHANGED <<videoCache, formatCache, requestQueue, isProcessing,
                   drainTimers, req, response, enqOrder, startOrder,
                   settleOrder, lastSettle, lastGap, retryCall, proxyVars, handlerVars>>

Init ==
    /\ now = 0
    /\ videoCache = <<>>
    /\ formatCache = <<>>
    /\ requestQueue = <<>>
    /\ isProcessing = FALSE
    /\ drainTimers = <<>>
    /\ req = [r \in Requests |-> NewRequest]
    /\ response = NoResponse
    /\ enqOrder = <<>>
    /\ startOrder = <<>>
    /\ settleOrder = <<>>
    /\ lastSettle = -1
    /\ lastGap = -1
    /\ retryCall = [f |-> NoFetch, outcomes |-> <<>>,
                    startedAt |-> <<>>, settledAt |-> <<>>]
    /\ PoolNotStarted
    /\ HandlersIdle

Next ==
    \/ \E r \in Requests, v \in VideoIds : Mp3Request(r, v)
    \/ \E r \in Requests, o \in AllOutcomes : GetInfoSettles(r, o)
    \/ \E r \in Requests : BackoffTimerFires(r)
    \/ DrainTimerFires
    \/ \E d \in TickSteps : Tick(d)

Spec == Init /\ [][Next]_vars

----------------------------------------------------------------------------
(* The service with both routes.  The clock steps by THROTTLE_DELAY and by *)
(* CACHE_TTL - THROTTLE_DELAY, so that entries written THROTTLE_DELAY      *)
(* apart are seen on either side of their expiry.                          *)

StreamTickSteps == {THROTTLE_DELAY, CACHE_TTL - THROTTLE_DELAY}

TickStream(d) ==
    /\ d \in StreamTickSteps
    /\ d = THROTTLE_DELAY =>
            (now % (CACHE_TTL - THROTTLE_DELAY)) + d
                <= MaxShortTicks * THROTTLE_DELAY
    /\ d = CACHE_TTL - THROTTLE_DELAY =>
            now \div (CACHE_TTL - THROTTLE_DELAY) < MaxLongTicks
    /\ now' = now + d
    /\ UNCHANGED <<videoCache, formatCache, requestQueue, isProcessing,
                   drainTimers, req, response, enqOrder, startOrder,
                   settleOrder, lastSettle, lastGap, retryCall, proxyVars, handlerVars>>

NextStream ==
    \/ \E r \in Requests, v \in VideoIds : Mp3Request(r, v)
    \/ \E r \in Requests, v \in VideoIds : StreamRequest(r, v)
    \/ \E r \in Requests, o \in AllOutcomes : GetInfoSettles(r, o)
    \/ \E r \in Requests : BackoffTimerFires(r)
    \/ DrainTimerFires
    \/ \E d \in StreamTickSteps : TickStream(d)

SpecStream == Init /\ [][NextStream]_vars

----------------------------------------------------------------------------
(* The service with the scheduling of the event loop: a timer that is due  *)
(* fires, a call of ytdl.getInfo in flight settles, and the clock reaches  *)
(* the time of every pending timer.  Requests may stop arriving.           *)

\* the times the pending timers are set for
PendingDue ==
    { drainTimers[i] : i \in 1..Len(drainTimers) }
    \cup { req[r].fetch.due :
             r \in { q \in Requests : /\ req[q].pc = "running"
                                      /\ req[q].fetch.pc = "waiting" } }

\* time passes, up to the next pending timer; the event loop runs the
\* timers in the order of their times, so none is due when the clock moves
TimerTick ==
    /\ PendingDue # {}
    /\ \A t \in PendingDue : t > now
    /\ now' = CHOOSE t \in PendingDue : \A u \in PendingDue : t <= u
    /\ UNCHANGED <<videoCache, serviceVars, proxyVars, handlerVars>>

NextLive ==
    \/ \E r \in Requests, v \in VideoIds : Mp3Request(r, v)
    \/ \E r \in Requests, o \in AllOutcomes : GetInfoSettles(r, o)
    \/ \E r \in Requests : BackoffTimerFires(r)
    \/ DrainTimerFires
    \/ TimerTick

Fairness ==
    /\ WF_vars(TimerTick)
    /\ WF_vars(DrainTimerFires)
    /\ \A r \in Requests : WF_vars(BackoffTimerFires(r))
    /\ \A r \in Requests : WF_vars(\E o \in AllOutcomes : GetInfoSettles(r, o))

SpecLive == Init /\ [][NextLive]_vars /\ Fairness

----------------------------------------------------------------------------
(* fetchWithRetry(videoId, maxRetries) called on its own, for every        *)
(* maxRetries in 1..MaxRetriesArg.  outcomes records what each attempt     *)
(* got, startedAt and settledAt when each attempt started and settled.     *)

RetrySettles(o) ==
    /\ retryCall.f.pc = "attempt"
    /\ retryCall' = [retryCall EXCEPT
                        !.f = FetchSettle(retryCall.f, o, now),
                        !.outcomes = Append(@, o),
                        !.settledAt = Append(@, now)]
    /\ UNCHANGED <<now, videoCache, formatCache, requestQueue, isProcessing,
                   drainTimers, req, response, enqOrder, startOrder,
                   settleOrder, lastSettle, lastGap, proxyVars, handlerVars>>

RetryTimerFires ==
    /\ retryCall.f.pc = "waiting"
    /\ now >= retryCall.f.due
    /\ retryCall' = [retryCall EXCEPT
                        !.f = FetchResume(retryCall.f),
                        !.startedAt = IF FetchResume(retryCall.f).pc = "attempt"
                                      THEN Append(@, now) ELSE @]
    /\ UNCHANGED <<now, videoCache, formatCache, requestQueue, isProcessing,
                   drainTimers, req, response, enqOrder, startOrder,
                   settleOrder, lastSettle, lastGap, proxyVars, handlerVars>>

RetryTick ==
    /\ now + BaseDelay <= MaxBackoffTicks * BaseDelay
    /\ now' = now + BaseDelay
    /\ UNCHANGED <<videoCache, formatCache, requestQueue, isProcessing,
                   drainTimers, req, response, enqOrder, startOrder,
                   settleOrder, lastSettle, lastGap, retryCall, proxyVars, handlerVars>>

InitRetry ==
    /\ now = 0
    /\ videoCache = <<>>
    /\ formatCache = <<>>
    /\ requestQueue = <<>>
    /\ isProcessing = FALSE
    /\ drainTimers = <<>>
    /\ req = [r \in Requests |-> NewRequest]
    /\ response = NoResponse
    /\ enqOrder = <<>>
    /\ startOrder = <<>>
    /\ settleOrder = <<>>
    /\ lastSettle = -1
    /\ lastGap = -1
    /\ retryCall \in { [f |-> fetchWithRetry(n), outcomes |-> <<>>,
                         startedAt |-> <<0>>, settledAt |-> <<>>] :
                          n \in 1..MaxRetriesArg }
    /\ PoolNotStarted
    /\ HandlersIdle

NextRetry ==
    \/ \E o \in Outcomes(1) : RetrySettles(o)
    \/ RetryTimerFires
    \/ RetryTick

SpecRetry == InitRetry /\ [][NextRetry]_vars

----------------------------------------------------------------------------
(* fetchWithRetry on its own under the scheduling of the event loop: the   *)
(* attempt in flight settles, the clock reaches the time of the backoff    *)
(* timer, and the timer fires when it is due.                              *)

\* time passes, up to the backoff timer
RetryTimerTick ==
    /\ retryCall.f.pc = "waiting"
    /\ now < retryCall.f.due
    /\ now' = retryCall.f.due
    /\ UNCHANGED <<videoCache, serviceVars, proxyVars, handlerVars>>

NextRetryLive ==
    \/ \E o \in Outcomes(1) : RetrySettles(o)
    \/ RetryTimerFires
    \/ RetryTick
    \/ RetryTimerTick

FairnessRetry ==
    /\ WF_vars(\E o \in Outcomes(1) : RetrySettles(o))
    /\ WF_vars(RetryTimerFires)
    /\ WF_vars(RetryTimerTick)

SpecRetryLive == InitRetry /\ [][NextRetryLive]_vars /\ FairnessRetry

----------------------------------------------------------------------------
(* The /mp3 handler on its own, from the sort of the audio formats to the  *)
(* response, for every list of at most MaxFormats formats.                 *)

\* the service before its first request
ServiceIdle ==
    /\ now = 0
    /\ videoCache = <<>>
    /\ formatCache = <<>>
    /\ requestQueue = <<>>
    /\ isProcessing = FALSE
    /\ drainTimers = <<>>
    /\ req = [r \in Requests |-> NewRequest]
    /\ response = NoResponse
    /\ enqOrder = <<>>
    /\ startOrder = <<>>
    /\ settleOrder = <<>>
    /\ lastSettle = -1
    /\ lastGap = -1
    /\ retryCall = [f |-> NoFetch, outcomes |-> <<>>,
                    startedAt |-> <<>>, settledAt |-> <<>>]

Mp3Formats ==
    /\ body = NoBody
    /\ body' = Mp3Body(formats)
    /\ UNCHANGED <<now, videoCache, serviceVars, proxyVars, formats, cookies,
                   reload, health, used>>

InitFormats ==
    /\ ServiceIdle
    /\ PoolNotStarted
    /\ formats \in FormatLists
    /\ body = NoBody
    /\ cookies = <<>>
    /\ reload = NoReload
    /\ health = NoHealth
    /\ used = NoneUsed

NextFormats == Mp3Formats

SpecFormats == InitFormats /\ [][NextFormats]_vars

----------------------------------------------------------------------------
(* The service with GET /health and GET /mp3.  The cookies are those found *)
(* in cookies.txt at startup; the clock steps by THROTTLE_DELAY.           *)

\* a GET /health arrives and is answered
Health ==
    /\ health' = HealthBody
    /\ UNCHANGED <<now, videoCache, serviceVars, proxyVars, formats, body,
                   cookies, reload, used>>

StartupCookies == { parseCookiesFile(file).cookies : file \in CookieFiles }

InitHealth ==
    /\ ServiceIdle
    /\ PoolNotStarted
    /\ formats = <<>>
    /\ body = NoBody
    /\ cookies \in StartupCookies
    /\ reload = NoReload
    /\ health = NoHealth
    /\ used = NoneUsed

NextHealth ==
    \/ \E r \in Requests, v \in VideoIds : Mp3Request(r, v)
    \/ \E r \in Requests, o \in AllOutcomes : GetInfoSettles(r, o)
    \/ \E r \in Requests : BackoffTimerFires(r)
    \/ DrainTimerFires
    \/ Health
    \/ \E d \in {THROTTLE_DELAY} : Tick(d)

SpecHealth == InitHealth /\ [][NextHealth]_vars

----------------------------------------------------------------------------
(* The insertion of getCachedVideoInfo and the sweep it triggers, on their *)
(* own: the call has missed and its extraction has returned; videoCache is *)
(* any cache of at most MAX_CACHE_SIZE unexpired entries, which the        *)
(* insertions of earlier calls left in the order of their timestamps.      *)

SweepTimes == { k * THROTTLE_DELAY : k \in 0..MaxShortTicks }

SweepEntries ==
    { [key |-> v, info |-> Info(v, TRUE), timestamp |-> t] :
        v \in VideoIds, t \in SweepTimes }

SweepCaches ==
    { c \in UNION { [1..n -> SweepEntries] : n \in 0..MAX_CACHE_SIZE } :
        \A i, j \in 1..Len(c) :
            i < j => /\ c[i].key # c[j].key
                     /\ c[i].timestamp <= c[j].timestamp }

\* videoCache.set at Date.now() = now, then cleanupCache at Date.now() =
\* now + d
StoreAndSweep(v, d) ==
    /\ response = NoResponse
    /\ ~CacheHas(videoCache, v)
    /\ LET c == CacheSet(videoCache, v, Info(v, TRUE), now) IN
       /\ videoCache' = CacheStoreAt(videoCache, v, Info(v, TRUE), now,
                                     now + d)
       /\ response' = [NoResponse EXCEPT
                          !.videoId = v,
                          !.info = Info(v, TRUE),
                          !.cachedAfter = CacheHas(videoCache', v),
                          !.stored = Len(c),
                          !.evicted = IF Len(c) > MAX_CACHE_SIZE
                                      THEN SweepDeletes(c, now + d)
                                      ELSE <<>>]
    /\ now' = now + d
    /\ UNCHANGED <<formatCache, requestQueue, isProcessing, drainTimers, req,
                   enqOrder, startOrder, settleOrder, lastSettle, lastGap,
                   retryCall, proxyVars, handlerVars>>

InitSweep ==
    /\ now = MaxShortTicks * THROTTLE_DELAY
    /\ videoCache \in SweepCaches
    /\ formatCache = <<>>
    /\ requestQueue = <<>>
    /\ isProcessing = FALSE
    /\ drainTimers = <<>>
    /\ req = [r \in Requests |-> NewRequest]
    /\ response = NoResponse
    /\ enqOrder = <<>>
    /\ startOrder = <<>>
    /\ settleOrder = <<>>
    /\ lastSettle = -1
    /\ lastGap = -1
    /\ retryCall = [f |-> NoFetch, outcomes |-> <<>>,
                    startedAt |-> <<>>, settledAt |-> <<>>]
    /\ PoolNotStarted
    /\ HandlersIdle

NextSweep == \E v \in VideoIds, d \in 0..MaxSweepDelay : StoreAndSweep(v, d)

SpecSweep == InitSweep /\ [][NextSweep]_vars

----------------------------------------------------------------------------
(* Properties *)

IsPrefix(s, t) == Len(s) <= Len(t) /\ s = SubSeq(t, 1, Len(s))

Executing == { r \in Requests : req[r].pc = "running" }

IsRateLimitError(o) ==
    ~o.ok /\ (o.statusCode = 429 \/ o.message = "too many requests")

IsSignInError(o) == ~o.ok /\ o.message = "sign in"

\* C1: at most one queued task is executing (dequeued and not yet settled)
\* at any instant, and every started task but the executing one has settled.
C1_AtMostOneExecuting ==
    /\ Cardinality(Executing) <= 1
    /\ Len(startOrder) - Len(settleOrder) = Cardinality(Executing)

\* a task is in flight while another waits and a drain timer is already due
C1_Witness ==
    /\ Executing # {}
    /\ requestQueue # <<>>
    /\ drainTimers # <<>>
    /\ now >= Head(drainTimers)

\* C2: a task never starts less than THROTTLE_DELAY after the completion of
\* the previously executed task.
C2_MinimumSpacing == lastGap = -1 \/ lastGap >= THROTTLE_DELAY

\* C3: tasks start, and their futures settle, in the order they were
\* enqueued.
C3_Fifo ==
    /\ IsPrefix(startOrder, enqOrder)
    /\ IsPrefix(settleOrder, startOrder)

\* the task of the first request has run and settled, the second is in
\* flight after a backoff, and the third waits behind it
C3_Witness ==
    /\ settleOrder = <<1>>
    /\ startOrder = <<1, 2>>
    /\ req[2].fetch.retries > 0
    /\ requestQueue = <<3>>

\* C4: a value served from videoCache is younger than CACHE_TTL when served.
C4_ServedFresh == response.hit => response.hitAge < CACHE_TTL

\* a request served from an entry that has aged
C4_Witness == response.hit /\ response.hitAge > 0

\* C5: a lookup that finds an entry as old as the TTL or older is a miss
\* that removes the entry: an extraction call is made, the key stays out of
\* videoCache while the call is in flight, and it is absent after a failure.
C5_StalePurged ==
    /\ \A r \in Requests :
          req[r].stale =>
            /\ req[r].pc = "running"
            /\ req[r].fetch.attempts >= 1
            /\ ~CacheHas(videoCache, req[r].videoId)
    /\ response.stale =>
            /\ ~response.hit
            /\ response.fetch.attempts >= 1
            /\ response.fetch.pc = "thrown" => ~response.cachedAfter

\* a stale lookup whose extraction call failed
C5_Witness == response.stale /\ response.fetch.pc = "thrown"

\* C6: once an insertion and its sweep have completed, videoCache holds at
\* most MAX_CACHE_SIZE entries.
C6_WithinCapacity == Len(videoCache) <= MAX_CACHE_SIZE

\* C7: when every attempt of fetchWithRetry(videoId, n) fails as rate-limited
\* there are n attempts and n-1 delays of 1000, 2000, ..., 2^(n-2)*1000 ms,
\* and then the rate-limit error of the last attempt is thrown.
C7_BackoffSchedule ==
    LET f == retryCall.f
        log == retryCall.outcomes
        n == f.maxRetries
    IN  (\A i \in 1..Len(log) : IsRateLimitError(log[i])) =>
            /\ \A i \in 1..Len(f.delays) : f.delays[i] = (2 ^ (i - 1)) * 1000
            /\ \A i \in 2..Len(retryCall.startedAt) :
                    retryCall.startedAt[i] - retryCall.settledAt[i - 1]
                        >= (2 ^ (i - 2)) * 1000
            /\ f.pc # "returned"
            /\ f.pc = "attempt" =>
                    f.attempts = Len(log) + 1 /\ Len(f.delays) = Len(log)
            /\ f.pc = "waiting" =>
                    /\ f.attempts = Len(log) /\ Len(f.delays) = Len(log)
                    /\ Len(log) < n
            /\ f.pc = "thrown" =>
                    /\ f.attempts = n /\ Len(log) = n
                    /\ Len(f.delays) = n - 1
                    /\ f.out = log[n]

\* three rate-limited attempts of fetchWithRetry(videoId, 3)
C7_Witness ==
    /\ retryCall.f.maxRetries = 3
    /\ retryCall.f.pc = "thrown"
    /\ Len(retryCall.outcomes) = 3
    /\ \A i \in 1..3 : IsRateLimitError(retryCall.outcomes[i])
    /\ retryCall.f.delays = <<1000, 2000>>

\* C8: an attempt that fails with a sign-in error is the last attempt:
\* fetchWithRetry throws that error, with no delay after it.
C8_AuthFailsAtOnce ==
    LET f == retryCall.f
        log == retryCall.outcomes
    IN  \A i \in 1..Len(log) :
            IsSignInError(log[i]) =>
                /\ i = Len(log)
                /\ f.pc = "thrown"
                /\ f.out = log[i]
                /\ f.attempts = i
                /\ Len(f.delays) = i - 1

\* a sign-in error on a later attempt, after a rate-limited one
C8_Witness ==
    /\ Len(retryCall.outcomes) >= 2
    /\ IsSignInError(retryCall.outcomes[Len(retryCall.outcomes)])

\* C9: an attempt that fails with an error that is neither rate-limited nor
\* a sign-in error is the last attempt: fetchWithRetry throws that error.
C9_UnknownFailsAtOnce ==
    LET f == retryCall.f
        log == retryCall.outcomes
    IN  \A i \in 1..Len(log) :
            (~log[i].ok /\ ~IsRateLimitError(log[i]) /\ ~IsSignInError(log[i])) =>
                /\ i = Len(log)
                /\ f.pc = "thrown"
                /\ f.out = log[i]
                /\ f.attempts = i
                /\ Len(f.delays) = i - 1

\* an unknown error on the first attempt of a call that could have retried
C9_Witness ==
    /\ retryCall.f.maxRetries > 1
    /\ Len(retryCall.outcomes) = 1
    /\ retryCall.outcomes[1] = Err(0, "other")

\* C10: a /mp3 request during which the extraction returns a sign-in error
\* is answered 401, and videoCache has no entry for its video id then.
C10_SignInIs401 ==
    /\ \A r \in Requests : ~req[r].signIn
    /\ response.signIn =>
            /\ response.status = 401
            /\ ~response.cachedAfter

\* a sign-in error for a video whose stale entry had just been purged
C10_Witness == response.signIn /\ response.stale

\* C18: a cache hit of getCachedVideoInfo writes nothing to videoCache: the
\* entry keeps the timestamp of its insertion.
C18_HitKeepsTimestamp ==
    [][(response' # response /\ response'.hit) => videoCache' = videoCache]_vars

\* the third request is served from an entry that has aged and is the only
\* one in the cache
C18_Witness ==
    /\ response.hit
    /\ response.request = 3
    /\ response.hitAge > 0
    /\ Len(videoCache) = 1

\* C19: a sweep deletes entries in non-decreasing order of timestamp, and no
\* entry it leaves in videoCache is older than one it deleted.
C19_OldestFirst ==
    LET ev == response.evicted IN
    /\ \A i, j \in 1..Len(ev) : i < j => ev[i] <= ev[j]
    /\ \A i \in 1..Len(ev) : \A k \in 1..Len(videoCache) :
            ev[i] <= videoCache[k].timestamp

\* a sweep that deleted two entries of different age
C19_Witness ==
    /\ Len(response.evicted) = 2
    /\ response.evicted[1] < response.evicted[2]

\* C20: an insertion that takes videoCache above MAX_CACHE_SIZE is followed
\* by evictions until fewer than 80% of MAX_CACHE_SIZE entries are left.
C20_SweptUnderThreshold ==
    response.stored > MAX_CACHE_SIZE =>
        (response.stored - Len(response.evicted)) * 10 < MAX_CACHE_SIZE * 8

\* C16: formatCache does not stay above MAX_CACHE_SIZE entries.
C16_FormatCacheWithinCapacity == Len(formatCache) <= MAX_CACHE_SIZE

\* C17: a /stream request whose metadata was fetched anew is answered with
\* the format chosen from that metadata.
C17_FormatFromNewMetadata ==
    (/\ response.route = "stream"
     /\ ~response.hit
     /\ response.fetch.pc = "returned"
     /\ response.fetch.out.info.defined)
        => /\ response.format = chooseFormat(response.fetch.out.info)
           /\ ~response.formatCached

----------------------------------------------------------------------------
(* Properties of the proxy pool *)

Range(seq) == { seq[i] : i \in 1..Len(seq) }

\* C11: between two refreshes the k-th call of getNextProxy returns the
\* proxy at index (k - 1) mod length of the pool, and any length-of-the-pool
\* consecutive calls return every address of the pool.
C11_RoundRobin ==
    LET n == Len(proxyList) IN
    n > 0 =>
        /\ \A k \in 1..Len(handed) : handed[k] = proxyList[((k - 1) % n) + 1]
        /\ \A k \in 1..(Len(handed) - n + 1) :
               { handed[j] : j \in k..(k + n - 1) } = Range(proxyList)

\* the rotation went once around a, b, c and wrapped
C11_Witness ==
    /\ proxyList = <<"a", "b", "c">>
    /\ handed = <<"a", "b", "c", "a">>

\* C12: whenever the pool is not empty the cursor is a valid index into it.
C12_CursorInRange ==
    proxyList # <<>> =>
        currentProxyIndex \in 0..(Len(proxyList) - 1)

\* the pool was replaced by a shorter list under a request that began with
\* the longer one, and the cursor has moved on since
C12_Witness ==
    /\ Len(proxyList) = 2
    /\ currentProxyIndex = 1
    /\ \E r \in ProxyCalls : calls[r].pc = "attempt" /\ calls[r].maxRetries = 3

\* C13: a call of refreshProxyList contacts the proxy source exactly when
\* more than PROXY_REFRESH_INTERVAL has passed since lastProxyRefresh or the
\* pool is empty; a call that does not contact it leaves the pool, the
\* cursor and lastProxyRefresh as they were.
C13_RefreshWhenDue ==
    refreshCall.made =>
        /\ refreshCall.contacted <=> (refreshCall.elapsed \/ refreshCall.empty)
        /\ ~refreshCall.contacted => ~refreshCall.changed

\* a call exactly PROXY_REFRESH_INTERVAL after the last refresh was skipped
C13_Witness ==
    /\ refreshCall.made
    /\ ~refreshCall.contacted
    /\ now - lastProxyRefresh = PROXY_REFRESH_INTERVAL
    /\ posts[1].pc = "done"

\* C14: once a refresh has received a valid non-empty list, the pool is
\* that list and nothing else, the cursor is 0 until getNextProxy is called,
\* and the first call of getNextProxy returns the first address of the list.
C14_ReplacesPool ==
    received # <<>> =>
        /\ proxyList = received
        /\ handed = <<>> => currentProxyIndex = 0
        /\ handed # <<>> => handed[1] = received[1]

\* a second list has replaced the first while a request that began with
\* the first was running, and its first address has been handed out
C14_Witness ==
    /\ proxyList = <<"d", "e">>
    /\ handed = <<"d">>
    /\ \E r \in ProxyCalls : calls[r].maxRetries = 3

\* C15: in fetchVideoInfo an attempt that succeeds ends the call with its
\* result; an attempt that fails with 429 does not end the call: after the
\* pause, while fewer than maxRetries attempts have failed, the next attempt
\* is made with the proxy at the cursor of the rotation, which moves on; once
\* maxRetries attempts have failed the call throws the last error.
C15_RetriesThroughRotation ==
    [][\A r \in ProxyCalls :
        LET c == calls[r]
            d == calls'[r]
        IN
        /\ (c.pc = "attempt" /\ d.pc = "done")
               => /\ answer'.request = r
                  /\ \/ /\ answer'.result = "returned"
                        /\ answer'.attempts = c.attempts
                     \/ /\ answer'.result = "thrown"
                        /\ answer'.error.statusCode # 429
        /\ (c.pc = "attempt" /\ d.pc = "waiting")
               => /\ d.attempts = c.attempts + 1
                  /\ d.attempts <= d.maxRetries
                  /\ d.due = now + ProxyPause
        /\ (c.pc = "waiting" /\ d.pc = "attempt")
               => /\ c.attempts < c.maxRetries
                  /\ handed' = Append(handed, proxyList[currentProxyIndex + 1])
                  /\ currentProxyIndex'
                        = (currentProxyIndex + 1) % Len(proxyList)
        /\ (c.pc = "waiting" /\ d.pc = "done")
               => /\ c.attempts = c.maxRetries
                  /\ answer'.request = r
                  /\ answer'.result = "thrown"
                  /\ answer'.error = c.lastError
    ]_vars

\* a request failed after three attempts, the last one rate limited
C15_Witness ==
    /\ answer.result = "thrown"
    /\ answer.attempts = 3
    /\ answer.error.statusCode = 429
    /\ Len(handed) >= 3

----------------------------------------------------------------------------
(* Properties of the /mp3 response *)

\* a format has a url and a content length and is neither HLS nor DASH
HasAll(f) == f.url /\ f.contentLength /\ ~f.isHLS /\ ~f.isDashMPD

Rate(f) == IF f.bitrate = Missing THEN 0 ELSE f.bitrate

\* C21: for a non-empty list of audio formats the recommendedFormat of /mp3
\* is a reliable format with the highest bitrate among the reliable ones (a
\* missing bitrate counting as 0) when there is a reliable format, and
\* otherwise a format with the highest bitrate of all.
C21_RecommendsBest ==
    body.status = 200 =>
        LET all == { formats[i] : i \in 1..Len(formats) }
            reliable == { f \in all : HasAll(f) }
            best == body.recommendedFormat
            given == Format(best.url, best.contentLength, best.isHLS,
                            best.isDashMPD, best.bitrate)
        IN /\ given \in all
           /\ reliable # {} =>
                /\ given \in reliable
                /\ \A f \in reliable : Rate(given) >= Rate(f)
           /\ reliable = {} => \A f \in all : Rate(given) >= Rate(f)

\* an unreliable 320 before a reliable 128: the 128 one is recommended
C21_Witness ==
    /\ body.status = 200
    /\ Len(formats) = 2
    /\ ~HasAll(formats[1]) /\ formats[1].bitrate = 320
    /\ HasAll(formats[2]) /\ formats[2].bitrate = 128
    /\ body.recommendedFormat.bitrate = 128
    /\ body.recommendedFormat.isReliable

\* C22: the audioFormats of /mp3 are the formats found, ordered by
\* (reliable descending, bitrate descending with a missing bitrate as 0):
\* every reliable format comes before every unreliable one and bitrates do
\* not increase within each group; a format is marked reliable iff it has a
\* url and a content length and is neither HLS nor a DASH manifest.
C22_OrderedByKey ==
    body.status = 200 =>
        LET a == body.audioFormats IN
        /\ Len(a) = Len(formats)
        /\ \A i \in 1..Len(a) : a[i].isReliable <=> HasAll(a[i])
        /\ \A i, j \in 1..Len(a) :
              i < j =>
                /\ HasAll(a[j]) => HasAll(a[i])
                /\ (HasAll(a[i]) <=> HasAll(a[j])) => Rate(a[i]) >= Rate(a[j])

\* three formats given in the reverse of the order they are returned in,
\* with a missing bitrate among the reliable ones
C22_Witness ==
    /\ body.status = 200
    /\ Len(formats) = 3
    /\ formats[1].isHLS /\ formats[1].bitrate = 320
    /\ HasAll(formats[2]) /\ formats[2].bitrate = Missing
    /\ HasAll(formats[3]) /\ formats[3].bitrate = 128
    /\ body.audioFormats[1].bitrate = 128
    /\ body.audioFormats[3].isHLS

----------------------------------------------------------------------------
(* Properties of the queue under the scheduling of the event loop *)

NoDup(s) == \A i, j \in 1..Len(s) : i # j => s[i] # s[j]

\* the entries of the cache for the video ids other than v
EntriesBut(cache, v) ==
    { cache[i] : i \in { j \in 1..Len(cache) : cache[j].key # v } }

C29_EveryTaskSettlesOnce ==
    /\ [](/\ NoDup(startOrder)
          /\ NoDup(settleOrder)
          /\ Range(settleOrder) \subseteq Range(startOrder)
          /\ Range(startOrder) \subseteq Range(enqOrder)
          /\ response.request # 0 =>
                /\ response.info.defined =>
                      response.info.videoId = response.videoId
                /\ response.fetch.pc = "thrown" =>
                      /\ ~response.info.defined
                      /\ response.status = ErrorStatus(response.fetch.out))
    /\ \A r \in Requests :
          (r \in Range(enqOrder))
             ~> (r \in Range(settleOrder))

\* three tasks have settled, the last of them served from the cache
C29_Witness ==
    /\ settleOrder = <<1, 2, 3>>
    /\ requestQueue = <<>>
    /\ response.hit
    /\ Len(videoCache) = 1

----------------------------------------------------------------------------
(* Further properties of the service *)

\* C24: the status of a failed /mp3 request follows the class of the error
\* its task threw: 401 for a sign-in error, 429 for a rate-limit error, which
\* is thrown only by the last attempt the retry cap allows, and 500 for any
\* other error.
C24_StatusByErrorClass ==
    (response.route = "mp3" /\ response.fetch.pc = "thrown") =>
        LET error == response.fetch.out IN
        /\ IsSignInError(error) => response.status = 401
        /\ IsRateLimitError(error) =>
              /\ response.status = 429
              /\ response.fetch.attempts = DefaultMaxRetries
        /\ (~IsSignInError(error) /\ ~IsRateLimitError(error))
              => response.status = 500

\* a request answered 429 after the last attempt was refused by message
C24_Witness ==
    /\ response.fetch.pc = "thrown"
    /\ response.fetch.out.message = "too many requests"
    /\ response.fetch.attempts = DefaultMaxRetries
    /\ response.status = 429

\* C30: a request served from an unexpired entry of videoCache makes no
\* extraction call and is given the metadata the entry was stored with.
C30_HitReturnsStored ==
    [][(response' # response /\ response'.hit) =>
          /\ response'.fetch = NoFetch
          /\ \E i \in 1..Len(videoCache) :
                /\ videoCache[i].key = response'.videoId
                /\ videoCache[i].info = response'.info
                /\ now - videoCache[i].timestamp < CACHE_TTL]_vars

\* metadata without audio served from the second entry of the cache
C30_Witness ==
    /\ response.hit
    /\ response.videoId = 2
    /\ response.info = Info(2, FALSE)
    /\ Len(videoCache) = 2

----------------------------------------------------------------------------
(* Properties of the administration routes *)

\* C25: POST /refresh-proxies is answered 200 unless its refresh failed
\* (the proxy source was unreachable or returned an invalid list), and 500
\* when it failed.
C25_RefreshStatus ==
    \A e \in Posts :
        posts[e].pc = "done" =>
            posts[e].status = IF posts[e].failed THEN 500 ELSE 200

\* C26: POST /reload-cookies is answered 200 when cookies.txt was read and
\* parsed, and 500 when reading it failed.
C26_ReloadStatus ==
    reload.made => reload.status = IF reload.readable THEN 200 ELSE 500

\* C27: GET /health changes nothing: videoCache, formatCache, requestQueue,
\* isProcessing, the cookies and the pending drain timers are as before, and
\* the cacheSize and queueSize it reports are the sizes of videoCache and of
\* requestQueue at that moment.
C27_HealthReadsOnly ==
    [][health' # health =>
          /\ videoCache' = videoCache
          /\ formatCache' = formatCache
          /\ requestQueue' = requestQueue
          /\ isProcessing' = isProcessing
          /\ cookies' = cookies
          /\ drainTimers' = drainTimers
          /\ req' = req
          /\ health'.cacheSize = Len(videoCache)
          /\ health'.queueSize = Len(requestQueue)]_vars

\* a snapshot taken with cookies loaded, a video cached, a task in flight,
\* another waiting and a drain timer pending
C27_Witness ==
    /\ health.status = 200
    /\ health.cookieCount = 2
    /\ health.cacheSize = 1
    /\ health.queueSize = 1
    /\ health.isProcessingQueue
    /\ Len(videoCache) = 1
    /\ Len(requestQueue) = 1
    /\ drainTimers # <<>>

\* C28: proxyList changes only in a step in which a refreshProxyList call
\* settles with a valid list, and then it becomes that list; getNextProxy and
\* failed attempts of fetchVideoInfo leave its addresses and their order as
\* they are, so a proxy whose attempt failed is handed out again.
C28_PoolOnlyByRefresh ==
    [][proxyList' # proxyList =>
          /\ proxyList' = received'
          /\ \/ server.pc = "starting" /\ server'.pc = "listening"
             \/ \E e \in Posts :
                   /\ posts[e].pc = "refreshing"
                   /\ posts'[e].pc = "done"
                   /\ ~posts'[e].failed
             \/ \E r \in ProxyCalls :
                   /\ calls[r].pc = "refreshing"
                   /\ calls'[r].pc # "refreshing"]_vars

\* both proxies failed for one request, the last with 429, and the first of
\* them is in use for the next request
C28_Witness ==
    /\ proxyList = <<"d", "e">>
    /\ handed = <<"d", "e", "d">>
    /\ answer.result = "thrown"
    /\ answer.attempts = 2
    /\ answer.error.statusCode = 429
    /\ \E r \in ProxyCalls : calls[r].pc = "attempt"


----------------------------------------------------------------------------
(* Properties of fetchWithRetry under the scheduling of the event loop *)

\* C31: fetchWithRetry(videoId, n) with n >= 1 ends after at most n
\* attempts whatever the attempts get: it returns the result of the first
\* attempt that succeeds and makes no attempt after it, and otherwise it
\* throws the error of its last attempt.
C31_EndsWithinCap ==
    /\ [](LET f == retryCall.f
              log == retryCall.outcomes
          IN /\ f.attempts <= f.maxRetries
             /\ Len(log) <= f.attempts
             /\ \A i \in 1..Len(log) :
                   log[i].ok => /\ i = Len(log)
                                /\ f.pc = "returned"
                                /\ f.out = log[i]
                                /\ f.attempts = i
             /\ f.pc = "returned" => Len(log) >= 1 /\ log[Len(log)].ok
             /\ f.pc = "thrown" => /\ Len(log) = f.attempts
                                   /\ ~log[Len(log)].ok
                                   /\ f.out = log[Len(log)])
    /\ <>(retryCall.f.pc \in {"returned", "thrown"})

\* the third attempt of fetchWithRetry(videoId, 3) succeeded after two
\* rate-limited ones
C31_Witness ==
    /\ retryCall.f.maxRetries = 3
    /\ retryCall.f.pc = "returned"
    /\ Len(retryCall.outcomes) = 3
    /\ retryCall.outcomes[3].ok
    /\ retryCall.f.out = retryCall.outcomes[3]
    /\ retryCall.f.delays = <<1000, 2000>>

----------------------------------------------------------------------------
(* Properties of fetchVideoInfo *)

\* C32: a fetchVideoInfo call with its default maxRetries that finds the
\* pool empty refreshes the pool first, and when the refresh has settled it
\* makes an extraction attempt (through a proxy when the pool has addresses
\* by then); it does not fail without an attempt.
C32_AttemptsBeforeFailure ==
    [][\A r \in ProxyCalls :
          (calls[r].pc = "refreshing" /\ calls'[r].pc # "refreshing")
             => /\ calls'[r].pc = "attempt"
                /\ proxyList' # <<>> => handed' # <<>>]_vars

\* C33: in fetchVideoInfo an attempt that fails with status 401 or 403 ends
\* the call at once with that error: the call does not pause for another
\* attempt, no further proxy is handed out and the cursor stays where the
\* attempt left it.
C33_AuthErrorEndsCall ==
    [][\A r \in ProxyCalls :
          /\ (/\ calls[r].pc = "attempt"
              /\ calls'[r].pc = "done"
              /\ answer'.result = "thrown")
                => /\ answer'.request = r
                   /\ answer'.error.statusCode \in {401, 403}
                   /\ answer'.attempts = calls[r].attempts
                   /\ currentProxyIndex' = currentProxyIndex
                   /\ proxyList' = proxyList
                   /\ handed' = handed
          /\ (calls[r].pc = "attempt" /\ calls'[r].pc = "waiting")
                => calls'[r].lastError.statusCode \notin {401, 403}]_vars

\* the second attempt of a request was refused with 403 after the first was
\* rate limited; the third proxy was never tried
C33_Witness ==
    /\ answer.result = "thrown"
    /\ answer.error.statusCode = 403
    /\ answer.attempts = 1
    /\ proxyList = <<"a", "b", "c">>
    /\ handed = <<"a", "b">>
    /\ currentProxyIndex = 2

\* C34: a fetchVideoInfo call whose maxRetries is the size of the pool uses
\* a different proxy for each of its attempts, also when other requests
\* advance the cursor between its attempts.
C34_DistinctProxies ==
    \A r \in ProxyCalls :
        calls[r].maxRetries = Len(proxyList) => NoDup(used[r])

\* C35: a refreshProxyList call whose request to the proxy source fails, or
\* is answered with something other than a non-empty array of proxies,
\* leaves proxyList, currentProxyIndex and lastProxyRefresh as they were, so
\* a call made after it contacts the source exactly when it would have
\* without the failed call.
C35_FailedRefreshLeavesPool ==
    [][/\ (/\ server.pc = "starting"
           /\ server'.pc = "listening"
           /\ received' = <<>>)
             => CurrentPool' = CurrentPool
       /\ \A e \in Posts :
             (/\ posts[e].pc = "refreshing"
              /\ posts'[e].pc = "done"
              /\ posts'[e].failed)
                => /\ proxyList' = proxyList
                   /\ currentProxyIndex' = currentProxyIndex
                   /\ lastProxyRefresh' = lastProxyRefresh
                   /\ refreshProxyList(now', CurrentPool')
                         = refreshProxyList(now, CurrentPool)
                   /\ handed' = handed]_vars

\* a refresh that was due failed while the pool held a, b, c and the cursor
\* had moved: the pool is as it was and the refresh is still due
C35_Witness ==
    /\ posts[1].pc = "done"
    /\ posts[1].failed
    /\ proxyList = <<"a", "b", "c">>
    /\ currentProxyIndex = 1
    /\ lastProxyRefresh = 0
    /\ now - lastProxyRefresh > PROXY_REFRESH_INTERVAL
    /\ refreshProxyList(now, CurrentPool).contact

----------------------------------------------------------------------------
(* Further properties of the queue and the cache *)

\* the task of request r starts in this step
Starts(r) == startOrder' = Append(startOrder, r)

C37_NeverStuck ==
    /\ requestQueue # <<>> => (isProcessing \/ drainTimers # <<>>)
    /\ isProcessing <=> Executing # {}

\* the first task has settled and two tasks wait for the drain timer
C37_Witness ==
    /\ Len(requestQueue) = 2
    /\ ~isProcessing
    /\ Executing = {}
    /\ settleOrder = <<1>>
    /\ Len(drainTimers) = 1
    /\ now < Head(drainTimers)

\* C38: with a clock that does not go back, the entry getCachedVideoInfo
\* has just inserted is not removed by the sweep its insertion triggers:
\* when the call returns videoCache holds the entry of the requested id.
C38_InsertedSurvivesSweep ==
    response.videoId # 0 =>
        /\ response.cachedAfter
        /\ CacheHas(videoCache, response.videoId)
        /\ LET e == videoCache[CacheIndex(videoCache, response.videoId)] IN
           /\ e.info = response.info
           /\ e.timestamp <= now

\* the sweep ran after the clock had moved on and deleted the two entries
\* that were as old as the one just inserted
C38_Witness ==
    /\ response.videoId # 0
    /\ response.stored = MAX_CACHE_SIZE + 1
    /\ Len(response.evicted) = 2
    /\ Len(videoCache) = 1
    /\ videoCache[1].key = response.videoId
    /\ videoCache[1].timestamp < now
    /\ response.evicted[2] = videoCache[1].timestamp
====
